---- MODULE Spec2Model ----
(***************************************************************************)
(* Model of generators/base/hec.go: the HEC generator connection hecIgst.  *)
(* Two threads of control: the caller (newHecConn, Write, WriteBatch,      *)
(* NegotiateTag, Close) and the background worker httpRoutine, joined by   *)
(* an io.Pipe (request body) and the one-slot channel errch (outcome).     *)
(* The HTTP transport behind cli.Do is the environment: it reads the       *)
(* request body, answers or fails, and closes the body once it is through. *)
(* The tag calls read and write hec.tags only, and the pipeline never reads *)
(* hec.tags, so the tag table (SpecTags), the event records (SpecEnc) and   *)
(* the calls WaitForHot, Sync and SourceIP (SpecQuery) have specifications  *)
(* of their own over the same state.  SpecLive adds the scheduling of the   *)
(* threads, for the properties that say a call returns.                     *)
(***************************************************************************)
EXTENDS Integers, Sequences, FiniteSets, TLC

VARIABLES
    cfg,        \* GeneratorConfig and the timeout handed to newHecConn
    ret,        \* what newHecConn returned: (hec, err)
    hec,        \* the hecIgst fields src, tags, wtr
    errch,      \* hec.errch: buffered values and the closed flag
    pipe,       \* the io.Pipe between hec.wtr and the request body rdr
    body,       \* the request body bytes the transport has consumed
    worker,     \* httpRoutine: position, request, response
    requests,   \* number of cli.Do calls made so far
    posted,     \* history: every value sent on errch, in order
    caller,     \* the caller thread: position and the call in progress
    wlog,       \* history: one record per WriteEntry that returned
    blog,       \* history: one record per WriteBatch that returned
    closeRets,  \* history: the value of every Close that returned
    elapsed,    \* time units gone by while the request is outstanding
    nops,       \* number of API calls issued (bounds the exploration)
    tlog,       \* history: one record per tag call that returned
    elog,       \* history: one record per event record or time value built
    qlast       \* the result of the last WaitForHot, Sync or SourceIP

vars == <<cfg, ret, hec, errch, pipe, body, worker, requests, posted,
          caller, wlog, blog, closeRets, elapsed, nops, tlog, elog, qlast>>

----------------------------------------------------------------------------
(* Bounds of the exploration *)

MaxOps == 2
MaxTime == 2
MaxTagOps == 3
MaxEnc == 2

(* Program constants *)

ErrchCap == 1
LimitN == 512
StatusOK == 200
secondsPerDay == 86400
EntryTagMod == 65536

----------------------------------------------------------------------------
(* Byte strings are sequences of one-character strings. *)

Prefix(s, n) == SubSeq(s, 1, IF n < Len(s) THEN n ELSE Len(s))

Drop(s, n) == SubSeq(s, n + 1, Len(s))

IsPrefix(p, s) == Len(p) <= Len(s) /\ SubSeq(s, 1, Len(p)) = p

RECURSIVE Concat(_)
Concat(ss) == IF ss = <<>> THEN <<>> ELSE Head(ss) \o Concat(Tail(ss))

Contains(s, a) == \E i \in 1..Len(s) : s[i] = a

(* Error values: every error is a record of the same shape. *)

Err(kind, text) == [kind |-> kind, text |-> text]

Nil == Err("nil", <<>>)

ErrClosedPipe == Err("io: read/write on closed pipe", <<>>)

----------------------------------------------------------------------------
(* encoding/json as sendEvent uses it.  ValidJSON is the validity check the *)
(* encoder runs over a json.RawMessage, for the JSON grammar over the byte  *)
(* alphabet of the payloads below (objects, strings, unsigned integers).    *)

Digits == {"0", "1", "2", "3", "4", "5", "6", "7", "8", "9"}

RECURSIVE ScanQuote(_, _)
ScanQuote(s, i) ==
    IF i > Len(s) THEN 0
    ELSE IF s[i] = "\"" THEN i + 1
    ELSE ScanQuote(s, i + 1)

ParseString(s, i) ==
    IF i > Len(s) \/ s[i] # "\"" THEN 0 ELSE ScanQuote(s, i + 1)

RECURSIVE ScanDigits(_, _)
ScanDigits(s, i) ==
    IF i <= Len(s) /\ s[i] \in Digits THEN ScanDigits(s, i + 1) ELSE i

ParseNumber(s, i) ==
    IF i > Len(s) \/ s[i] \notin Digits THEN 0
    ELSE IF s[i] = "0" THEN i + 1
    ELSE ScanDigits(s, i + 1)

RECURSIVE ParseValue(_, _), ParseMembers(_, _)
ParseValue(s, i) ==
    IF i > Len(s) THEN 0
    ELSE IF s[i] = "{"
         THEN IF i + 1 <= Len(s) /\ s[i + 1] = "}" THEN i + 2
              ELSE ParseMembers(s, i + 1)
    ELSE IF s[i] = "\"" THEN ParseString(s, i)
    ELSE ParseNumber(s, i)

ParseMembers(s, i) ==
    LET j == ParseString(s, i) IN
    IF j = 0 \/ j > Len(s) \/ s[j] # ":" THEN 0
    ELSE LET k == ParseValue(s, j + 1) IN
         IF k = 0 \/ k > Len(s) THEN 0
         ELSE IF s[k] = "}" THEN k + 1
         ELSE IF s[k] = "," THEN ParseMembers(s, k + 1)
         ELSE 0

ValidJSON(s) == ParseValue(s, 1) = Len(s) + 1

JSONString(name) == <<"\"", name, "\"">>

(* json.Marshal(string(data)): the bytes between quotes, the quote and the  *)
(* backslash escaped.                                                       *)
RECURSIVE Escape(_)
Escape(data) ==
    IF data = <<>> THEN <<>>
    ELSE (IF Head(data) \in {"\"", "\\"} THEN <<"\\", Head(data)>> ELSE <<Head(data)>>)
         \o Escape(Tail(data))

JSONQuote(data) == <<"\"">> \o Escape(data) \o <<"\"">>

(* The test setData makes for a JSON object (line 224). *)
IsObject(data) == Len(data) >= 2 /\ data[1] = "{" /\ data[Len(data)] = "}"

(* setData (lines 222-235) with the package variable osc as o: the event    *)
(* bytes it returns and the value it leaves in osc.  Nothing calls it.      *)
setData(data, o) ==
    IF IsObject(data) /\ ~o THEN [raw |-> data, osc |-> TRUE]
    ELSE [raw |-> JSONQuote(data), osc |-> IF IsObject(data) THEN FALSE ELSE o]

(* entry.Timestamp: Sec is an int64 count of seconds, kept as days and      *)
(* seconds of the day (Sec = d * secondsPerDay + s) so that it fits.        *)

unixToInternal ==
    [d |-> 1969 * 365 + 1969 \div 4 - 1969 \div 100 + 1969 \div 400, s |-> 0]

SecLess(a, b) == a.d < b.d \/ (a.d = b.d /\ a.s < b.s)

timeFloat_ClampNegative(ts) ==
    IF ts.Sec.d < 0 THEN [whole |-> 0, nsec |-> 0]
    ELSE [whole |-> (ts.Sec.d - unixToInternal.d) * secondsPerDay
                        + (ts.Sec.s - unixToInternal.s),
          nsec |-> ts.Nsec]

(* timeFloat: the float r as whole seconds plus nsec / 1e9. *)
timeFloat(ts) ==
    IF SecLess(ts.Sec, unixToInternal) THEN [whole |-> 0, nsec |-> 0]
    ELSE [whole |-> (ts.Sec.d - unixToInternal.d) * secondsPerDay
                        + (ts.Sec.s - unixToInternal.s),
          nsec |-> ts.Nsec]

RECURSIVE FracDigits(_, _)
FracDigits(n, width) ==
    IF n % 10 = 0 THEN FracDigits(n \div 10, width - 1)
    ELSE [i \in 1..width |-> ToString((n \div (10 ^ (width - i))) % 10)]

FormatFloat(r) ==
    IF r.nsec = 0 THEN <<ToString(r.whole)>>
    ELSE <<ToString(r.whole), ".">> \o FracDigits(r.nsec, 9)

(* The struct hecent and its serialisation: fields in declaration order,    *)
(* each left out when empty (omitempty); the Encoder appends a newline.     *)

hecent(ent, tag) == [Event |-> ent.Data, Time |-> timeFloat(ent.TS), ST |-> tag]

HecentFields(v) ==
    (IF v.Event = <<>> THEN <<>> ELSE << <<"\"event\":">> \o v.Event >>)
    \o (IF v.Time = [whole |-> 0, nsec |-> 0] THEN <<>>
        ELSE << <<"\"time\":">> \o FormatFloat(v.Time) >>)
    \o (IF v.ST = "" THEN <<>>
        ELSE << <<"\"sourcetype\":">> \o JSONString(v.ST) >>)

RECURSIVE JoinComma(_)
JoinComma(fs) ==
    IF fs = <<>> THEN <<>>
    ELSE IF Len(fs) = 1 THEN fs[1]
    ELSE fs[1] \o <<",">> \o JoinComma(Tail(fs))

MarshalError == Err("json: error calling MarshalJSON for type json.RawMessage", <<>>)

(* Encoder.Encode(v): the bytes it would write, or the marshalling error. *)
Encode(v) ==
    IF v.Event # <<>> /\ ~ValidJSON(v.Event)
    THEN [err |-> MarshalError, bytes |-> <<>>]
    ELSE [err |-> Nil, bytes |-> <<"{">> \o JoinComma(HecentFields(v)) \o <<"}", "\n">>]

----------------------------------------------------------------------------
(* Inputs: payloads, timestamps, entries, batches, responses. *)

PObj == <<"{", "\"", "a", "\"", ":", "1", "}">>

PHello == <<"h", "e", "l", "l", "o">>

PEmpty == <<>>

TSAfter == [Sec |-> [d |-> unixToInternal.d, s |-> 1], Nsec |-> 500000000]

TSEpoch == [Sec |-> unixToInternal, Nsec |-> 0]

TSBefore == [Sec |-> [d |-> unixToInternal.d - 1, s |-> secondsPerDay - 1], Nsec |-> 7]

Ent(ts, tag, data) == [isNil |-> FALSE, TS |-> ts, Tag |-> tag, Data |-> data]

NilEnt == [isNil |-> TRUE, TS |-> TSEpoch, Tag |-> 0, Data |-> <<>>]

EntObj == Ent(TSAfter, 0, PObj)

EntHello == Ent(TSBefore, 1, PHello)

EntEmpty == Ent(TSEpoch, 0, PEmpty)

Entries == {EntObj, EntHello}

(* The entries the event records are built for: timestamps after, at and    *)
(* before the epoch, tag ids, payloads.                                     *)
TSBeforeNeg == [Sec |-> [d |-> unixToInternal.d - 1, s |-> 0], Nsec |-> -1]

TSFarPast == [Sec |-> [d |-> -1, s |-> 0], Nsec |-> 999999999]

EncTimes == {TSAfter, TSEpoch, TSBefore, TSBeforeNeg, TSFarPast}

EncTags == {0, 1}

EncEntries == {Ent(ts, tag, data) : ts \in EncTimes, tag \in EncTags,
                                   data \in {PObj, PHello, PEmpty}}

Batches == {<<>>, <<EntObj, EntEmpty, EntHello>>, <<EntObj, NilEnt>>, <<NilEnt>>}

ServerError == <<"s", "e", "r", "v", "e", "r", " ", "e", "r", "r", "o", "r">>

LongBody == [i \in 1..(LimitN + 2) |-> IF i <= LimitN THEN "x" ELSE "y"]

Resp(code, line, b) == [StatusCode |-> code, Status |-> line, Body |-> b]

NoResp == Resp(0, "", <<>>)

Responses == {Resp(200, "200 OK", <<>>),
              Resp(201, "201 Created", LongBody),
              Resp(500, "500 Internal Server Error", ServerError)}

(* Sizes of the buffers the transport reads the request body into. *)
ReadSizes == {6, 64}

(* Request timeouts handed to newHecConn, in time units. *)
Timeouts == {1}

DefaultTag == "syslog"

TagNames == {"web", "app", "7", "bad\ntag"}

(* The names GetTag is called with, and the ids LookupTag is called with. *)
GetNames == {"web", DefaultTag}

LookupIds == {0, 1}

(* The numbers of distinct valid names negotiated before the calls the      *)
(* exploration makes, and the table those calls leave behind.               *)
PriorNames == {0, EntryTagMod - 2, EntryTagMod - 1}

PriorName(k) == ToString(k)

(* hec.tags is kept as the block of ids 1..prior, id k holding PriorName(k), *)
(* under the entries ext written at construction and by the calls explored. *)
TagsAfter(tag, n) == [prior |-> n, ext |-> (0 :> tag)]

(* The ids of the block that hold name v, worked out once for the names the *)
(* calls are made with or return.                                           *)
PriorIdsOf ==
    [v \in TagNames \cup GetNames \cup {""} \cup {PriorName(k) : k \in LookupIds} |->
        {k \in 1..(EntryTagMod - 1) : PriorName(k) = v}]

PriorIds(v) ==
    IF v \in DOMAIN PriorIdsOf THEN PriorIdsOf[v]
    ELSE {k \in 1..(EntryTagMod - 1) : PriorName(k) = v}

(* The tag table hec.tags, a map from entry.EntryTag (uint16) to name. *)

ErrNotFound == Err("not found", <<>>)

(* entry.EntryTag(n): the conversion of an int to uint16. *)
EntryTag(n) == n % EntryTagMod

(* len(hec.tags), the read hec.tags[k] and the write hec.tags[k] = v. *)
TagLen(tags) == tags.prior + Cardinality(DOMAIN tags.ext \ (1..tags.prior))

TagHas(tags, k) == k \in DOMAIN tags.ext \/ k \in 1..tags.prior

TagAt(tags, k) == IF k \in DOMAIN tags.ext THEN tags.ext[k] ELSE PriorName(k)

TagPut(tags, k, v) == [tags EXCEPT !.ext = (k :> v) @@ tags.ext]

(* The keys the range loops of NegotiateTag and GetTag can stop at. *)
TagIds(tags, v) ==
    {k \in DOMAIN tags.ext : tags.ext[k] = v}
    \cup {k \in PriorIds(v) : k <= tags.prior /\ k \notin DOMAIN tags.ext}

LocalAddrs == {"10.0.0.5"}

CtorFailures == {"parse", "resolve", "dial", "split", "close"}

----------------------------------------------------------------------------
(* ingest.CheckTag: the backend's naming rules. *)

CheckTag(v) == IF v \in {"", "bad\ntag"} THEN Err("forbidden tag", <<>>) ELSE Nil

----------------------------------------------------------------------------
(* io.Pipe: a synchronous pipe.  buf holds what is left of the Write in     *)
(* progress; res tells the blocked writer how its Write ended.              *)

NoPipe == [buf |-> <<>>, res |-> "none", rerr |-> Nil, werr |-> Nil]

DoneClosed(p) == p.rerr # Nil \/ p.werr # Nil

writeCloseError(p) ==
    IF p.werr = Nil /\ p.rerr # Nil THEN p.rerr ELSE ErrClosedPipe

closeRead(p, err) ==
    [p EXCEPT !.rerr = IF p.rerr # Nil THEN p.rerr
                       ELSE IF err = Nil THEN ErrClosedPipe ELSE err,
              !.res = IF p.res = "pending" THEN "closed" ELSE p.res]

closeWrite_Noop(p) == p

closeWrite(p) ==
    [p EXCEPT !.werr = Err("EOF", <<>>)]

(* errch: a channel of capacity ErrchCap. *)

CanSend_NeedsReceiver(ch) == ~ch.closed /\ caller.pc = "closeRecv"

CanSend(ch) == ~ch.closed /\ Len(ch.buf) < ErrchCap

Send(ch, v) == [ch EXCEPT !.buf = Append(ch.buf, v)]

CanRecv_NoWait(ch) == TRUE

CanRecv(ch) == ch.buf # <<>> \/ ch.closed

RecvValue(ch) == IF ch.buf # <<>> THEN Head(ch.buf) ELSE Nil

Recv(ch) == [ch EXCEPT !.buf = IF ch.buf # <<>> THEN Tail(ch.buf) ELSE <<>>]

----------------------------------------------------------------------------
(* State *)

Alive == caller.pc # "panic"

NoQuery == [op |-> "none", err |-> Nil, ip |-> ""]

Idle == [pc |-> "idle", kind |-> "", op |-> 0, ents |-> <<>>, i |-> 0, first |-> 0,
         afterFail |-> FALSE, afterClose |-> FALSE]

Init ==
    /\ cfg \in [modeHECRaw : BOOLEAN, Tag : {DefaultTag}, to : Timeouts]
    /\ ret = [hec |-> FALSE, err |-> Nil]
    /\ hec = [made |-> FALSE, src |-> "", tags |-> TagsAfter("", 0), wtr |-> FALSE]
    /\ errch = [buf |-> <<>>, closed |-> FALSE]
    /\ pipe = NoPipe
    /\ body = <<>>
    /\ worker = [pc |-> "none", req |-> <<>>, resp |-> NoResp]
    /\ requests = 0
    /\ posted = <<>>
    /\ caller = [Idle EXCEPT !.pc = "new"]
    /\ wlog = <<>>
    /\ blog = <<>>
    /\ closeRets = <<>>
    /\ elapsed = 0
    /\ nops = 0
    /\ tlog = <<>>
    /\ elog = <<>>
    /\ qlast = NoQuery

----------------------------------------------------------------------------
(* newHecConn and hecIgst.test. *)

newHecConn(fail) ==
    /\ caller.pc = "new"
    /\ UNCHANGED <<cfg, errch, pipe, body, requests, posted, wlog, blog,
                   closeRets, elapsed, nops, tlog, elog, qlast>>
    /\ IF fail = "parse"
       THEN /\ ret' = [hec |-> FALSE, err |-> Err("url.Parse", <<>>)]
            /\ caller' = [Idle EXCEPT !.pc = "ctorfailed"]
            /\ UNCHANGED <<hec, worker>>
       ELSE \E ip \in LocalAddrs :
            LET made == [made |-> TRUE, src |-> "", tags |-> TagsAfter(cfg.Tag, 0),
                         wtr |-> FALSE]
            IN  IF fail \in {"resolve", "dial", "split"}
                THEN /\ hec' = made
                     /\ ret' = [hec |-> TRUE, err |-> Err(fail, <<>>)]
                     /\ caller' = [Idle EXCEPT !.pc = "ctorfailed"]
                     /\ UNCHANGED worker
                ELSE IF fail = "close"
                THEN /\ hec' = [made EXCEPT !.src = ip]
                     /\ ret' = [hec |-> TRUE, err |-> Err(fail, <<>>)]
                     /\ caller' = [Idle EXCEPT !.pc = "ctorfailed"]
                     /\ UNCHANGED worker
                ELSE /\ hec' = [made EXCEPT !.src = ip, !.wtr = TRUE]
                     /\ ret' = [hec |-> TRUE, err |-> Nil]
                     /\ caller' = Idle
                     /\ worker' = [worker EXCEPT !.pc = "start"]

Construct == \E fail \in CtorFailures \cup {"none"} : newHecConn(fail)

----------------------------------------------------------------------------
(* httpRoutine *)

RequestFor(c) ==
    [Method |-> "POST", Authorization |-> "Splunk token", UserAgent |-> "gen",
     sourcetype |-> IF c.modeHECRaw THEN c.Tag ELSE ""]

StatusError(resp, msg) ==
    Err("status", <<"invalid status ", ToString(resp.StatusCode), " (", resp.Status,
                    ")", "\n">> \o msg)

Outcome_Any2xx(resp, readOK) ==
    IF resp.StatusCode < 200 \/ resp.StatusCode > 299
    THEN StatusError(resp, IF readOK THEN Prefix(resp.Body, LimitN) ELSE <<>>)
    ELSE Nil

(* The value httpRoutine posts for a response (lines 108-119). *)
Outcome(resp, readOK) ==
    IF resp.StatusCode # StatusOK
    THEN StatusError(resp, IF readOK THEN Prefix(resp.Body, LimitN) ELSE <<>>)
    ELSE Nil

Post(v) ==
    /\ CanSend(errch)
    /\ errch' = Send(errch, v)
    /\ posted' = Append(posted, v)

WorkerFrame == UNCHANGED <<cfg, ret, hec, pipe, body, caller, wlog, blog,
                           closeRets, elapsed, nops, tlog, elog, qlast>>

(* http.NewRequest fails: post the error and return (lines 88-91). *)
NewRequestFails ==
    /\ Alive /\ worker.pc = "start"
    /\ Post(Err("http.NewRequest", <<>>))
    /\ worker' = [worker EXCEPT !.pc = "deferCh"]
    /\ UNCHANGED requests
    /\ WorkerFrame

(* The request is built and cli.Do is entered (lines 88-103). *)
DoRequest ==
    /\ Alive /\ worker.pc = "start"
    /\ worker' = [worker EXCEPT !.pc = "doing", !.req = RequestFor(cfg)]
    /\ requests' = requests + 1
    /\ UNCHANGED <<errch, posted>>
    /\ WorkerFrame

DoFails_NoPost ==
    /\ Alive /\ worker.pc = "doing"
    /\ worker' = [worker EXCEPT !.pc = "deferCh"]
    /\ UNCHANGED <<requests, errch, posted>>
    /\ WorkerFrame

DoFails_Retry ==
    /\ Alive /\ worker.pc = "doing"
    /\ Post(Err("transport", <<>>))
    /\ worker' = [worker EXCEPT !.pc = "start"]
    /\ UNCHANGED requests
    /\ WorkerFrame

(* cli.Do returns an error (lines 103-106). *)
DoFails ==
    /\ Alive /\ worker.pc = "doing"
    /\ Post(Err("transport", <<>>))
    /\ worker' = [worker EXCEPT !.pc = "deferCh"]
    /\ UNCHANGED requests
    /\ WorkerFrame

(* cli.Do returns a response (line 103). *)
DoResponds ==
    /\ Alive /\ worker.pc = "doing"
    /\ \E r \in Responses : worker' = [worker EXCEPT !.pc = "gotresp", !.resp = r]
    /\ UNCHANGED <<requests, errch, posted>>
    /\ WorkerFrame

(* The status check and the post of the outcome (lines 108-119). *)
PostOutcome ==
    /\ Alive /\ worker.pc = "gotresp"
    /\ \E readOK \in BOOLEAN : Post(Outcome(worker.resp, readOK))
    /\ worker' = [worker EXCEPT !.pc = "deferBody"]
    /\ UNCHANGED requests
    /\ WorkerFrame

(* defer resp.Body.Close() (line 107). *)
DeferBodyClose ==
    /\ Alive /\ worker.pc = "deferBody"
    /\ worker' = [worker EXCEPT !.pc = "deferCh"]
    /\ UNCHANGED <<requests, errch, posted>>
    /\ WorkerFrame

DeferCloseCh_NoClose ==
    /\ Alive /\ worker.pc = "deferCh"
    /\ worker' = [worker EXCEPT !.pc = "done"]
    /\ UNCHANGED <<requests, errch, posted>>
    /\ WorkerFrame

(* defer close(hec.errch) (line 87). *)
DeferCloseCh ==
    /\ Alive /\ worker.pc = "deferCh"
    /\ errch' = [errch EXCEPT !.closed = TRUE]
    /\ worker' = [worker EXCEPT !.pc = "done"]
    /\ UNCHANGED <<requests, posted>>
    /\ WorkerFrame

----------------------------------------------------------------------------
(* The transport behind cli.Do: it reads the request body while the body is *)
(* open, and closes the body once the request is over.                     *)

TransportRead ==
    /\ Alive /\ requests > 0 /\ pipe.res = "pending" /\ ~DoneClosed(pipe)
    /\ \E k \in ReadSizes :
         /\ body' = body \o Prefix(pipe.buf, k)
         /\ pipe' = [pipe EXCEPT !.buf = Drop(pipe.buf, k),
                                 !.res = IF Drop(pipe.buf, k) = <<>> THEN "ok"
                                         ELSE "pending"]
    /\ UNCHANGED <<cfg, ret, hec, errch, worker, requests, posted, caller, wlog,
                   blog, closeRets, elapsed, nops, tlog, elog, qlast>>

TransportCloseErr_Failure == IF posted # <<>> THEN posted[1] ELSE Nil

(* The transport closes the request body with Close(), which carries no     *)
(* error of its own.                                                        *)
TransportCloseErr == Nil

TransportCloseBody ==
    /\ Alive /\ requests > 0 /\ worker.pc \notin {"start", "doing"}
    /\ pipe.rerr = Nil
    /\ pipe' = closeRead(pipe, TransportCloseErr)
    /\ UNCHANGED <<cfg, ret, hec, errch, body, worker, requests, posted, caller,
                   wlog, blog, closeRets, elapsed, nops, tlog, elog, qlast>>

(* Time goes by while the request is outstanding; the http.Client of        *)
(* httpRoutine is the zero value, so nothing bounds the wait.               *)
Tick ==
    /\ Alive /\ worker.pc = "doing" /\ elapsed < MaxTime
    /\ elapsed' = elapsed + 1
    /\ UNCHANGED <<cfg, ret, hec, errch, pipe, body, worker, requests, posted,
                   caller, wlog, blog, closeRets, nops, tlog, elog, qlast>>

----------------------------------------------------------------------------
(* The caller thread *)

RequestFailed == posted # <<>> /\ posted[1] # Nil

CallerFrame == UNCHANGED <<cfg, ret, errch, body, worker, requests, posted, elapsed,
                           elog, qlast>>

Call(kind, ents) ==
    [pc |-> "entry", kind |-> kind, op |-> nops + 1, ents |-> ents, i |-> 1,
     first |-> Len(wlog),
     afterFail |-> RequestFailed, afterClose |-> closeRets # <<>>]

(* Write (lines 173-179): build the entry and hand it to WriteEntry. *)
Write(e) ==
    /\ Alive /\ caller.pc = "idle" /\ nops < MaxOps
    /\ caller' = Call("Write", <<e>>)
    /\ nops' = nops + 1
    /\ UNCHANGED <<hec, tlog, pipe, wlog, blog, closeRets>>
    /\ CallerFrame

(* WriteBatch (lines 181-188): the loop over the entries starts. *)
WriteBatch(ents) ==
    /\ Alive /\ caller.pc = "idle" /\ nops < MaxOps
    /\ nops' = nops + 1
    /\ IF ents = <<>>
       THEN /\ blog' = Append(blog, [op |-> nops + 1, ents |-> ents, err |-> Nil,
                                     first |-> Len(wlog), n |-> 0])
            /\ UNCHANGED caller
       ELSE /\ caller' = Call("WriteBatch", ents)
            /\ UNCHANGED blog
    /\ UNCHANGED <<hec, tlog, pipe, wlog, closeRets>>
    /\ CallerFrame

BatchContinues_IgnoreErr(err, i, n) == i < n

(* Whether the WriteBatch loop goes on after WriteEntry returned err. *)
BatchContinues(err, i, n) == err = Nil /\ i < n

(* WriteEntry returns err: Write returns it; WriteBatch returns it when it  *)
(* is an error or the list is through, and goes on to the next entry        *)
(* otherwise.                                                               *)
FinishEntry(err) ==
    /\ wlog' = Append(wlog, [ent |-> caller.ents[caller.i], err |-> err,
                             kind |-> caller.kind, op |-> caller.op,
                             afterFail |-> caller.afterFail,
                             afterClose |-> caller.afterClose])
    /\ IF caller.kind = "Write"
       THEN caller' = Idle /\ UNCHANGED blog
       ELSE IF BatchContinues(err, caller.i, Len(caller.ents))
       THEN caller' = [caller EXCEPT !.pc = "entry", !.i = @ + 1] /\ UNCHANGED blog
       ELSE /\ caller' = Idle
            /\ blog' = Append(blog, [op |-> caller.op, ents |-> caller.ents,
                                     err |-> err,
                                     first |-> caller.first, n |-> caller.i])

WriteDone_Buffered(p) == TRUE

(* Whether the wtr.Write in progress has returned: all its bytes were read, *)
(* or the pipe was closed under it.                                         *)
WriteDone(p) == p.res \in {"ok", "closed"}

(* wtr.Write(b) is entered: it fails at once on a closed pipe, and blocks   *)
(* with b pending otherwise.                                                *)
PipeWrite(b, pc) ==
    IF DoneClosed(pipe)
    THEN FinishEntry(writeCloseError(pipe)) /\ UNCHANGED pipe
    ELSE /\ pipe' = [pipe EXCEPT !.buf = b, !.res = "pending"]
         /\ caller' = [caller EXCEPT !.pc = pc]
         /\ UNCHANGED <<wlog, blog>>

(* The bytes sendRaw writes first (line 206). *)
RawData(ent) == ent.Data

RawTerminator_CRLF == <<"\r", "\n">>

(* The bytes sendRaw writes second (line 208). *)
RawTerminator == <<"\n">>

(* sendRaw, first write (lines 205-207).  A nil entry is dereferenced. *)
sendRaw ==
    /\ Alive /\ caller.pc = "entry" /\ cfg.modeHECRaw
    /\ ~caller.ents[caller.i].isNil
    /\ PipeWrite(RawData(caller.ents[caller.i]), "wData")
    /\ UNCHANGED <<hec, tlog, closeRets, nops>>
    /\ CallerFrame

sendRawNil ==
    /\ Alive /\ caller.pc = "entry" /\ cfg.modeHECRaw
    /\ caller.ents[caller.i].isNil
    /\ caller' = [caller EXCEPT !.pc = "panic"]
    /\ UNCHANGED <<hec, tlog, pipe, wlog, blog, closeRets, nops>>
    /\ CallerFrame

(* sendRaw, the first write returned (lines 206-208). *)
sendRawNewline ==
    /\ Alive /\ caller.pc = "wData" /\ WriteDone(pipe)
    /\ IF pipe.res = "closed"
       THEN FinishEntry(writeCloseError(pipe)) /\ UNCHANGED pipe
       ELSE PipeWrite(RawTerminator, "wLast")
    /\ UNCHANGED <<hec, tlog, closeRets, nops>>
    /\ CallerFrame

(* The event field of the record sendEvent builds (line 241). *)
EventData(ent) == ent.Data

SourceType_EntryTag(ent) ==
    IF TagHas(hec.tags, ent.Tag) THEN TagAt(hec.tags, ent.Tag) ELSE ""

(* The sourcetype of the record sendEvent builds (line 242). *)
SourceType(ent) == cfg.Tag

(* The record sendEvent builds for an entry (lines 239-243). *)
EventStruct(ent) == hecent([ent EXCEPT !.Data = EventData(ent)], SourceType(ent))

(* sendEvent (lines 237-247): a nil entry is skipped; the record is encoded *)
(* and, when that succeeds, written with one Write.                         *)
sendEvent ==
    /\ Alive /\ caller.pc = "entry" /\ ~cfg.modeHECRaw
    /\ LET ent == caller.ents[caller.i]
           enc == Encode(EventStruct(ent))
       IN  IF ent.isNil THEN FinishEntry(Nil) /\ UNCHANGED pipe
           ELSE IF enc.err # Nil THEN FinishEntry(enc.err) /\ UNCHANGED pipe
           ELSE PipeWrite(enc.bytes, "wLast")
    /\ UNCHANGED <<hec, tlog, closeRets, nops>>
    /\ CallerFrame

(* The last Write of sendRaw or sendEvent returned. *)
WriteReturns ==
    /\ Alive /\ caller.pc = "wLast" /\ WriteDone(pipe)
    /\ FinishEntry(IF pipe.res = "closed" THEN writeCloseError(pipe) ELSE Nil)
    /\ UNCHANGED <<hec, tlog, pipe, closeRets, nops>>
    /\ CallerFrame

(* Close (lines 127-131): close the write side, then receive from errch. *)
Close ==
    /\ Alive /\ caller.pc = "idle" /\ nops < MaxOps
    /\ pipe' = closeWrite(pipe)
    /\ caller' = [caller EXCEPT !.pc = "closeRecv"]
    /\ nops' = nops + 1
    /\ UNCHANGED <<hec, tlog, wlog, blog, closeRets>>
    /\ CallerFrame

CloseReturns ==
    /\ Alive /\ caller.pc = "closeRecv" /\ CanRecv(errch)
    /\ closeRets' = Append(closeRets, RecvValue(errch))
    /\ errch' = Recv(errch)
    /\ caller' = Idle
    /\ UNCHANGED <<cfg, ret, hec, pipe, body, worker, requests, posted, wlog, blog,
                   elapsed, nops, tlog, elog, qlast>>

----------------------------------------------------------------------------
(* The tag calls. *)

(* One record of tlog: the call, what it returned, and the table around it. *)
TagRec(op, name, id, err, ok, after) ==
    [op |-> op, name |-> name, id |-> id, err |-> err, ok |-> ok,
     size |-> TagLen(hec.tags),
     had |-> TagIds(hec.tags, name) # {},
     changed |-> after # hec.tags]

TagFrame == UNCHANGED <<cfg, ret, errch, pipe, body, worker, requests, posted, caller,
                        wlog, blog, closeRets, elapsed, nops, elog, qlast>>

(* NegotiateTag when the name is not in the table (lines 156-158). *)
NegotiateMiss(tags, v) ==
    LET tag == EntryTag(TagLen(tags))
    IN  [tags |-> TagPut(tags, tag, v), tag |-> tag, err |-> Nil]

(* NegotiateTag (lines 146-160). *)
NegotiateTag(v) ==
    /\ Alive /\ caller.pc = "idle" /\ Len(tlog) < MaxTagOps
    /\ IF CheckTag(v) # Nil
       THEN /\ tlog' = Append(tlog, TagRec("NegotiateTag", v, 0, CheckTag(v), FALSE,
                                           hec.tags))
            /\ UNCHANGED hec
       ELSE IF TagIds(hec.tags, v) # {}
       THEN /\ \E k \in TagIds(hec.tags, v) :
                 tlog' = Append(tlog, TagRec("NegotiateTag", v, k, Nil, TRUE, hec.tags))
            /\ UNCHANGED hec
       ELSE LET r == NegotiateMiss(hec.tags, v)
            IN  /\ hec' = [hec EXCEPT !.tags = r.tags]
                /\ tlog' = Append(tlog, TagRec("NegotiateTag", v, r.tag, r.err, TRUE,
                                               r.tags))
    /\ TagFrame

GetTagMiss_Insert(tags, v) == NegotiateMiss(tags, v)

(* GetTag when the name is not in the table (lines 169-170). *)
GetTagMiss(tags, v) == [tags |-> tags, tag |-> 0, err |-> ErrNotFound]

(* GetTag (lines 162-171). *)
GetTag(v) ==
    /\ Alive /\ caller.pc = "idle" /\ Len(tlog) < MaxTagOps
    /\ IF TagIds(hec.tags, v) # {}
       THEN /\ \E k \in TagIds(hec.tags, v) :
                 tlog' = Append(tlog, TagRec("GetTag", v, k, Nil, TRUE, hec.tags))
            /\ UNCHANGED hec
       ELSE LET r == GetTagMiss(hec.tags, v)
            IN  /\ hec' = [hec EXCEPT !.tags = r.tags]
                /\ tlog' = Append(tlog, TagRec("GetTag", v, r.tag, r.err,
                                               r.err = Nil, r.tags))
    /\ TagFrame

(* LookupTag (lines 141-144): the name and the ok flag of the map read. *)
LookupTag(tag) ==
    /\ Alive /\ caller.pc = "idle" /\ Len(tlog) < MaxTagOps
    /\ LET ok == TagHas(hec.tags, tag)
           v == IF ok THEN TagAt(hec.tags, tag) ELSE ""
       IN  tlog' = Append(tlog, TagRec("LookupTag", v, tag, Nil, ok, hec.tags))
    /\ UNCHANGED hec
    /\ TagFrame

----------------------------------------------------------------------------

Next ==
    \/ Construct
    \/ NewRequestFails
    \/ DoRequest
    \/ DoFails
    \/ DoResponds
    \/ PostOutcome
    \/ DeferBodyClose
    \/ DeferCloseCh
    \/ TransportRead
    \/ TransportCloseBody
    \/ \E e \in Entries : Write(e)
    \/ \E ents \in Batches : WriteBatch(ents)
    \/ sendRaw
    \/ sendRawNil
    \/ sendRawNewline
    \/ sendEvent
    \/ WriteReturns
    \/ Close
    \/ CloseReturns

Spec == Init /\ [][Next]_vars

(* The connection with single Writes and Close. *)
NextLive ==
    \/ Construct
    \/ NewRequestFails
    \/ DoRequest
    \/ DoFails
    \/ DoResponds
    \/ PostOutcome
    \/ DeferBodyClose
    \/ DeferCloseCh
    \/ TransportRead
    \/ TransportCloseBody
    \/ \E e \in Entries : Write(e)
    \/ sendRaw
    \/ sendRawNewline
    \/ sendEvent
    \/ WriteReturns
    \/ Close
    \/ CloseReturns

(* That program with its threads scheduled: the worker goroutine, the       *)
(* transport's goroutines and the caller thread each take their next step   *)
(* when it stays possible.  Nothing is assumed about when cli.Do returns    *)
(* or about which calls the caller makes.                                   *)
Fairness ==
    /\ WF_vars(NewRequestFails \/ DoRequest)
    /\ WF_vars(PostOutcome)
    /\ WF_vars(DeferBodyClose)
    /\ WF_vars(DeferCloseCh)
    /\ WF_vars(TransportRead)
    /\ WF_vars(TransportCloseBody)
    /\ WF_vars(sendRaw)
    /\ WF_vars(sendRawNewline)
    /\ WF_vars(sendEvent)
    /\ WF_vars(WriteReturns)
    /\ WF_vars(CloseReturns)

SpecLive == Init /\ [][NextLive]_vars /\ Fairness

(* The same program with time going by. *)
SpecTimed == Init /\ [][Next \/ Tick]_vars

(* The tag calls, which touch hec.tags and nothing else of the connection,   *)
(* on a connection newHecConn has returned and on which n names have been   *)
(* negotiated.                                                              *)
Constructed(c, ip, n) ==
    /\ cfg = c
    /\ ret = [hec |-> TRUE, err |-> Nil]
    /\ hec = [made |-> TRUE, src |-> ip, tags |-> TagsAfter(c.Tag, n), wtr |-> TRUE]
    /\ errch = [buf |-> <<>>, closed |-> FALSE]
    /\ pipe = NoPipe
    /\ body = <<>>
    /\ worker = [pc |-> "start", req |-> <<>>, resp |-> NoResp]
    /\ requests = 0
    /\ posted = <<>>
    /\ caller = Idle
    /\ wlog = <<>>
    /\ blog = <<>>
    /\ closeRets = <<>>
    /\ elapsed = 0
    /\ nops = 0
    /\ tlog = <<>>
    /\ elog = <<>>
    /\ qlast = NoQuery

InitTags ==
    \E c \in [modeHECRaw : BOOLEAN, Tag : {DefaultTag}, to : Timeouts],
       ip \in LocalAddrs, n \in PriorNames : Constructed(c, ip, n)

NextTags ==
    \/ \E v \in TagNames : NegotiateTag(v)
    \/ \E v \in GetNames : GetTag(v)
    \/ \E tag \in LookupIds : LookupTag(tag)

SpecTags == InitTags /\ [][NextTags]_vars

(* WaitForHot, Sync and SourceIP (lines 123-139).  They take no lock and    *)
(* wait for nothing, so they can be called whatever the caller thread and   *)
(* the worker are at.                                                       *)
QueryFrame == UNCHANGED <<cfg, ret, hec, errch, pipe, body, worker, requests, posted,
                          caller, wlog, blog, closeRets, elapsed, nops, tlog, elog>>

Usable == Alive /\ ret.hec /\ ret.err = Nil

WaitForHotResult == Nil

SyncResult_ErrAfterClose == IF pipe.werr # Nil THEN ErrClosedPipe ELSE Nil

SyncResult == Nil

SourceIPResult == [ip |-> hec.src, err |-> Nil]

WaitForHot ==
    /\ Usable
    /\ qlast' = [op |-> "WaitForHot", err |-> WaitForHotResult, ip |-> ""]
    /\ QueryFrame

Sync ==
    /\ Usable
    /\ qlast' = [op |-> "Sync", err |-> SyncResult, ip |-> ""]
    /\ QueryFrame

SourceIP ==
    /\ Usable
    /\ qlast' = [op |-> "SourceIP", err |-> SourceIPResult.err, ip |-> SourceIPResult.ip]
    /\ QueryFrame

(* The connection with single Writes, Close and the three calls. *)
NextQuery ==
    \/ Construct
    \/ NewRequestFails
    \/ DoRequest
    \/ DoFails
    \/ DoResponds
    \/ PostOutcome
    \/ DeferBodyClose
    \/ DeferCloseCh
    \/ TransportRead
    \/ TransportCloseBody
    \/ Write(EntObj)
    \/ sendRaw
    \/ sendRawNewline
    \/ sendEvent
    \/ WriteReturns
    \/ Close
    \/ CloseReturns
    \/ WaitForHot
    \/ Sync
    \/ SourceIP

SpecQuery == Init /\ [][NextQuery]_vars

(* The event records of sendEvent by themselves: the record is built and    *)
(* encoded for entries drawn from EncEntries, between NegotiateTag calls.   *)
BuildEvent(ent) ==
    /\ Alive /\ caller.pc = "idle" /\ ~cfg.modeHECRaw /\ Len(elog) < MaxEnc
    /\ LET v == EventStruct(ent)
           enc == Encode(v)
       IN  elog' = Append(elog, [ent |-> ent, v |-> v, err |-> enc.err,
                                 bytes |-> enc.bytes, ntags |-> TagLen(hec.tags)])
    /\ UNCHANGED <<cfg, ret, hec, errch, pipe, body, worker, requests, posted, caller,
                   wlog, blog, closeRets, elapsed, nops, tlog, qlast>>

InitEnc ==
    \E c \in [modeHECRaw : {FALSE}, Tag : {DefaultTag}, to : Timeouts],
       ip \in LocalAddrs : Constructed(c, ip, 0)

NextEnc ==
    \/ \E ent \in EncEntries : BuildEvent(ent)
    \/ NegotiateTag("web")

SpecEnc == InitEnc /\ [][NextEnc]_vars

----------------------------------------------------------------------------
(* Properties *)

PipelineState ==
    IF worker.pc = "none" THEN "none"
    ELSE IF worker.pc = "start" THEN "Idle"
    ELSE IF worker.pc \in {"doing", "gotresp"} THEN "Streaming"
    ELSE "Terminated"

Rank(st) ==
    IF st = "none" THEN 0 ELSE IF st = "Idle" THEN 1
    ELSE IF st = "Streaming" THEN 2 ELSE 3

(* C1: on every path of httpRoutine exactly one value is posted to errch,   *)
(* the channel is closed only after that post, and no second value is ever  *)
(* posted.                                                                  *)
C1_ExactlyOnePost ==
    /\ Len(posted) <= 1
    /\ errch.closed => Len(posted) = 1
    /\ worker.pc \in {"none", "start", "doing", "gotresp"}
          => posted = <<>> /\ ~errch.closed
    /\ worker.pc \in {"deferBody", "deferCh", "done"} => Len(posted) = 1
    /\ worker.pc = "done" <=> errch.closed

C1_Witness ==
    /\ worker.pc = "done" /\ errch.closed
    /\ Len(posted) = 1 /\ posted[1].kind = "status"

(* C2: the first Close closes the write side of the body stream before it   *)
(* waits, does not return before the worker has posted, and returns exactly *)
(* the value the worker posted.                                             *)
C2_CloseReturnsOutcome ==
    /\ caller.pc = "closeRecv" => pipe.werr # Nil
    /\ closeRets # <<>> =>
          /\ pipe.werr # Nil
          /\ posted # <<>>
          /\ closeRets[1] = posted[1]

C2_Witness ==
    /\ closeRets # <<>> /\ closeRets[1].kind = "transport"
    /\ caller.pc = "idle"

(* C3: at most one HTTP request is ever opened; the pipeline state never    *)
(* moves backwards along Idle, Streaming, Terminated; a request is open     *)
(* exactly while Streaming; once Terminated no request is opened again.     *)
C3_SingleRequest ==
    /\ [](/\ requests <= 1
          /\ PipelineState \in {"none", "Idle"} => requests = 0
          /\ PipelineState = "Streaming" => requests = 1)
    /\ [][/\ Rank(PipelineState') >= Rank(PipelineState)
          /\ PipelineState = "Terminated" => requests' = requests]_vars

C3_Witness ==
    /\ worker.pc = "done" /\ requests = 1 /\ posted[1] # Nil
    /\ nops = MaxOps
    /\ \E i \in DOMAIN wlog : wlog[i].afterFail

(* C4: the outcome is success if and only if the response status is exactly *)
(* 200; for every other status it is a failure whose text holds the status  *)
(* code and a prefix of the response body of at most 512 bytes, and Close   *)
(* returns that failure.                                                    *)
ErrMsg(e) == Drop(e.text, 6)

C4_SuccessIff200 ==
    posted # <<>> =>
      /\ posted[1] = Nil <=> (worker.resp # NoResp /\ worker.resp.StatusCode = 200)
      /\ (worker.resp # NoResp /\ worker.resp.StatusCode # 200) =>
            /\ posted[1].kind = "status"
            /\ Contains(posted[1].text, ToString(worker.resp.StatusCode))
            /\ IsPrefix(ErrMsg(posted[1]), worker.resp.Body)
            /\ Len(ErrMsg(posted[1])) <= 512
            /\ closeRets # <<>> => closeRets[1] = posted[1]

C4_Witness ==
    /\ closeRets # <<>> /\ closeRets[1].kind = "status"
    /\ Contains(closeRets[1].text, "500")
    /\ ErrMsg(closeRets[1]) = ServerError

C4_WitnessTruncated ==
    /\ posted # <<>> /\ worker.resp.StatusCode = 201
    /\ Len(worker.resp.Body) > 512 /\ Len(ErrMsg(posted[1])) = 512

(* C5: Write returns an error only when the write to the byte stream fails: *)
(* every error a Write returned is the error of the stream.                 *)
C5_WriteFailsOnlyOnStream ==
    \A i \in DOMAIN wlog :
       wlog[i].kind = "Write" => wlog[i].err \in {Nil, ErrClosedPipe}

C6_WitnessAll ==
    \E b \in DOMAIN blog : blog[b].err = Nil /\ blog[b].n = 2

(* C7: in raw mode, when no call is in progress, the request body consumed  *)
(* is exactly the concatenation of payload plus newline of the successful   *)
(* writes.                                                                  *)
RawRecord(ent) == ent.Data \o <<"\n">>

RECURSIVE SuccRecs(_)
SuccRecs(log) ==
    IF log = <<>> THEN <<>>
    ELSE (IF Head(log).err = Nil THEN RawRecord(Head(log).ent) ELSE <<>>)
         \o SuccRecs(Tail(log))

Failed == {i \in DOMAIN wlog : wlog[i].err # Nil}

FirstFailed == CHOOSE i \in Failed : \A j \in Failed : i <= j

C7_BodyExact ==
    (cfg.modeHECRaw /\ caller.pc = "idle") => body = SuccRecs(wlog)

(* C7 as amended: the body is that concatenation followed by at most a      *)
(* proper prefix of the record of the first write that failed (or of the    *)
(* write in progress); all successful writes precede the first failed one.  *)
C7_BodyUpToFailedWrite ==
    cfg.modeHECRaw =>
      /\ IsPrefix(SuccRecs(wlog), body)
      /\ LET rest == Drop(body, Len(SuccRecs(wlog))) IN
         IF Failed # {}
         THEN /\ \A i \in DOMAIN wlog : i > FirstFailed => wlog[i].err # Nil
              /\ IsPrefix(rest, RawRecord(wlog[FirstFailed].ent))
              /\ rest # RawRecord(wlog[FirstFailed].ent)
         ELSE IF caller.pc \in {"wData", "wLast"}
         THEN /\ IsPrefix(rest, RawRecord(caller.ents[caller.i]))
              /\ (rest = RawRecord(caller.ents[caller.i])) => pipe.res = "ok"
         ELSE rest = <<>>

C7_Witness ==
    /\ cfg.modeHECRaw /\ closeRets # <<>> /\ caller.pc = "idle"
    /\ Len(wlog) = 1 /\ wlog[1].ent = EntObj /\ wlog[1].err = Nil
    /\ body = PObj \o <<"\n">>

C7_WitnessPartial ==
    /\ cfg.modeHECRaw /\ caller.pc = "idle" /\ Failed # {}
    /\ body # SuccRecs(wlog)

(* C8: a Write issued after the request has failed returns success.         *)
C8_WriteAfterFailureSucceeds ==
    cfg.modeHECRaw =>
       \A i \in DOMAIN wlog : wlog[i].afterFail => wlog[i].err = Nil

(* C8 as amended: the failure of the request is reported only by Close; a   *)
(* Write issued after the failure never returns that failure: it returns    *)
(* success, the closed-pipe error of the stream or its own encoding error.  *)
C8_FailureOnlyAtClose ==
    /\ \A i \in DOMAIN wlog :
          wlog[i].afterFail =>
             /\ wlog[i].err # posted[1]
             /\ wlog[i].err \in {Nil, ErrClosedPipe, MarshalError}
             /\ cfg.modeHECRaw => wlog[i].err \in {Nil, ErrClosedPipe}
    /\ (RequestFailed /\ closeRets # <<>>) => closeRets[1] = posted[1]

C8_Witness ==
    /\ cfg.modeHECRaw /\ RequestFailed
    /\ \E i \in DOMAIN wlog : wlog[i].afterFail /\ wlog[i].err = ErrClosedPipe
    /\ closeRets # <<>>

C8_WitnessSuccess ==
    \E i \in DOMAIN wlog : wlog[i].afterFail /\ wlog[i].err = Nil

(* C9: when the configured request timeout has elapsed the request is no    *)
(* longer outstanding: the worker has posted, so a waiting Close returns.   *)
C9_TimeoutEndsRequest ==
    elapsed > cfg.to => worker.pc # "doing"

(* C10: whenever newHecConn reports an error no Connection object is        *)
(* returned and no worker or request has been started.                      *)
C10_AllOrNothing ==
    ret.err # Nil => (~ret.hec /\ worker.pc = "none" /\ requests = 0)

(* C11: every Write or WriteBatch with at least one entry issued after      *)
(* Close has returned returns an error, appends no bytes to the request     *)
(* body and opens no new request.                                           *)
C11_NotReusableAfterClose ==
    /\ [](\A j \in DOMAIN blog :
            (blog[j].n > 0 /\ wlog[blog[j].first + 1].afterClose) => blog[j].err # Nil)
    /\ [](\A i \in DOMAIN wlog : wlog[i].afterClose => wlog[i].err # Nil)
    /\ [][closeRets # <<>> => (body' = body /\ requests' = requests)]_vars

(* C11 as amended: after Close has returned every call that reaches an      *)
(* entry that is not nil returns an error (the closed-pipe error, or the    *)
(* encoding error of a payload that is not JSON), no byte is appended to    *)
(* the request body and no request is opened.  A nil entry is skipped in    *)
(* event mode and dereferenced in raw mode.                                 *)
C11_NonNilEntryFailsAfterClose ==
    /\ [](\A i \in DOMAIN wlog :
            (wlog[i].afterClose /\ ~wlog[i].ent.isNil) =>
                wlog[i].err \in {ErrClosedPipe, MarshalError})
    /\ [](\A j \in DOMAIN blog :
            (blog[j].n > 0 /\ wlog[blog[j].first + 1].afterClose
                 /\ \E k \in 1..blog[j].n : ~blog[j].ents[k].isNil) => blog[j].err # Nil)
    /\ [][closeRets # <<>> => (body' = body /\ requests' = requests)]_vars

C11_Witness ==
    /\ closeRets # <<>>
    /\ \E i \in DOMAIN wlog :
          wlog[i].afterClose /\ wlog[i].kind = "Write" /\ wlog[i].err = ErrClosedPipe

C11_WitnessNilBatch ==
    \E j \in DOMAIN blog :
        blog[j].n > 0 /\ wlog[blog[j].first + 1].afterClose /\ blog[j].err = Nil

(* The records of tlog made by one operation. *)
TagCalls(op) == {i \in DOMAIN tlog : tlog[i].op = op}

(* The NegotiateTag calls that put a name into the table. *)
Inserted == {i \in TagCalls("NegotiateTag") : tlog[i].err = Nil /\ ~tlog[i].had}

(* C12: two NegotiateTag calls with the same valid name, whatever calls     *)
(* with other names lie between them, return the same id, and the second    *)
(* call leaves the tag table unchanged.                                     *)
C12_NegotiateIdempotent ==
    \A i, j \in TagCalls("NegotiateTag") :
        (i < j /\ tlog[i].name = tlog[j].name /\ tlog[i].err = Nil) =>
            (tlog[j].err = Nil /\ tlog[j].id = tlog[i].id /\ ~tlog[j].changed)

(* C13: a NegotiateTag call with a valid name not yet in the table returns  *)
(* the table size before the insertion, the ids of successively new names   *)
(* are strictly increasing, every name maps to at most one id and no id is  *)
(* assigned twice.                                                          *)
C13_IdsAreTableSizes ==
    /\ \A i \in Inserted : tlog[i].id = tlog[i].size
    /\ \A i, j \in Inserted : i < j => tlog[i].id < tlog[j].id
    /\ \A i, j \in TagCalls("NegotiateTag") :
          (tlog[i].err = Nil /\ tlog[j].err = Nil /\ tlog[i].name = tlog[j].name)
              => tlog[i].id = tlog[j].id
    /\ \A k \in DOMAIN hec.tags.ext : Cardinality(TagIds(hec.tags, TagAt(hec.tags, k))) = 1
    /\ \A i, j \in Inserted : i # j => tlog[i].id # tlog[j].id

(* C14: after any number of NegotiateTag calls with distinct valid names,   *)
(* more than the EntryTag type can represent included, LookupTag(0) returns *)
(* the default tag name configured at construction.                         *)
C14_ZeroIsDefaultTag ==
    /\ TagHas(hec.tags, 0) /\ TagAt(hec.tags, 0) = cfg.Tag
    /\ \A i \in TagCalls("LookupTag") :
          tlog[i].id = 0 => (tlog[i].ok /\ tlog[i].name = cfg.Tag)

(* Whether the name of call i had been negotiated before the call: by one   *)
(* of the calls made before the exploration or by one recorded in tlog.     *)
Negotiated(i) ==
    \/ \E k \in PriorIds(tlog[i].name) : k <= hec.tags.prior
    \/ \E j \in TagCalls("NegotiateTag") :
          j < i /\ tlog[j].name = tlog[i].name /\ tlog[j].err = Nil

(* C15: GetTag on a name that was never negotiated on the connection fails  *)
(* with the not-found error, and GetTag never inserts: the tag table is the *)
(* same before and after every GetTag call.                                 *)
C15_GetTagUnknownFails ==
    \A i \in TagCalls("GetTag") :
        /\ ~Negotiated(i) => tlog[i].err = ErrNotFound
        /\ ~tlog[i].changed

(* C15 as amended: GetTag on a name that is not in the tag table, that is   *)
(* neither negotiated on the connection nor the default tag name seeded at  *)
(* construction, fails with the not-found error; a name that is in the      *)
(* table resolves to its id; GetTag never changes the table.                *)
C15_GetTagAbsentFails ==
    \A i \in TagCalls("GetTag") :
        /\ (~Negotiated(i) /\ tlog[i].name # cfg.Tag) =>
               (~tlog[i].had /\ tlog[i].err = ErrNotFound /\ tlog[i].id = 0)
        /\ ~tlog[i].had => tlog[i].err = ErrNotFound
        /\ tlog[i].had => (tlog[i].err = Nil /\ tlog[i].id < EntryTagMod)
        /\ ~tlog[i].changed

C15_Witness ==
    \E i \in TagCalls("GetTag") :
        ~Negotiated(i) /\ tlog[i].name # cfg.Tag /\ tlog[i].err = ErrNotFound

C15_WitnessDefault ==
    \E i \in TagCalls("GetTag") :
        ~Negotiated(i) /\ tlog[i].name = cfg.Tag /\ tlog[i].err = Nil /\ tlog[i].id = 0

(* The bytes of a wire record whose fields are the event ev, the time of    *)
(* entry ent and the sourcetype st.                                         *)
WireRecord(ev, ent, st) ==
    <<"{">> \o JoinComma(HecentFields([Event |-> ev, Time |-> timeFloat(ent.TS),
                                        ST |-> st])) \o <<"}", "\n">>

(* C16: in event mode a payload that is not a JSON object always produces a *)
(* wire record whose event field is the payload as a JSON string, never the *)
(* raw payload bytes.                                                       *)
C16_NonObjectQuoted ==
    \A i \in DOMAIN elog :
        ~IsObject(elog[i].ent.Data) =>
            /\ elog[i].err = Nil
            /\ elog[i].v.Event = setData(elog[i].ent.Data, FALSE).raw
            /\ elog[i].v.Event = setData(elog[i].ent.Data, TRUE).raw
            /\ elog[i].bytes =
                   WireRecord(JSONQuote(elog[i].ent.Data), elog[i].ent, cfg.Tag)

(* The records built for payloads that are JSON objects. *)
ObjectWrites == {i \in DOMAIN elog : IsObject(elog[i].ent.Data)}

(* C17: of any two consecutive event-mode writes of JSON-object payloads    *)
(* exactly one embeds the payload as-is and the other as a JSON string.     *)
C17_ObjectAlternates ==
    \A i, j \in ObjectWrites :
        (i < j /\ ~\E k \in ObjectWrites : i < k /\ k < j) =>
            \/ /\ elog[i].v.Event = elog[i].ent.Data
               /\ elog[j].v.Event = JSONQuote(elog[j].ent.Data)
            \/ /\ elog[i].v.Event = JSONQuote(elog[i].ent.Data)
               /\ elog[j].v.Event = elog[j].ent.Data

(* C18: the sourcetype of every event record is the configured default tag  *)
(* name whatever the tag id of the entry; records of entries that differ    *)
(* only in tag id are identical; NegotiateTag does not change it.           *)
C18_SourceTypeIsDefaultTag ==
    /\ \A i \in DOMAIN elog :
          /\ elog[i].v.ST = cfg.Tag
          /\ elog[i].err = Nil =>
                elog[i].bytes = WireRecord(elog[i].ent.Data, elog[i].ent, DefaultTag)
    /\ \A i, j \in DOMAIN elog :
          [elog[i].ent EXCEPT !.Tag = 0] = [elog[j].ent EXCEPT !.Tag = 0] =>
              (elog[i].bytes = elog[j].bytes /\ elog[i].err = elog[j].err)

C18_Witness ==
    /\ \E i \in DOMAIN tlog : tlog[i].op = "NegotiateTag" /\ tlog[i].id = 1
    /\ \E i, j \in DOMAIN elog :
          /\ elog[i].ent.Tag = 0 /\ elog[j].ent.Tag = 1
          /\ elog[j].ntags = 2 /\ TagAt(hec.tags, 1) = "web"
          /\ [elog[i].ent EXCEPT !.Tag = 1] = elog[j].ent
          /\ elog[j].err = Nil
          /\ elog[i].bytes = elog[j].bytes

(* C19: for every timestamp whose seconds are below unixToInternal, with    *)
(* any nanoseconds, the time of the event record is exactly 0, never        *)
(* negative.                                                                *)
C19_BeforeEpochIsZero ==
    \A i \in DOMAIN elog :
        LET ts == elog[i].ent.TS
            before == \/ ts.Sec.d < unixToInternal.d
                      \/ ts.Sec.d = unixToInternal.d /\ ts.Sec.s < unixToInternal.s
        IN  /\ before => elog[i].v.Time = [whole |-> 0, nsec |-> 0]
            /\ before => ~Contains(elog[i].bytes, "\"time\":")
            /\ elog[i].v.Time.whole >= 0
            /\ before => elog[i].v.Time.nsec >= 0

C19_Witness ==
    /\ \E i \in DOMAIN elog :
          elog[i].ent.TS = TSBeforeNeg /\ elog[i].v.Time = [whole |-> 0, nsec |-> 0]
    /\ \E i \in DOMAIN elog :
          elog[i].ent.TS = TSFarPast /\ elog[i].err = Nil

(* C20: WaitForHot, Sync and SourceIP never fail and never block in any    *)
(* state of the connection, they change nothing, and SourceIP returns the   *)
(* address found at construction on every call.                             *)
C20_QueriesSucceedAndChangeNothing ==
    /\ [](qlast.err = Nil)
    /\ [](qlast.op = "SourceIP" => (qlast.ip = hec.src /\ qlast.ip \in LocalAddrs))
    /\ [](Usable => (ENABLED WaitForHot /\ ENABLED Sync /\ ENABLED SourceIP))
    /\ [][qlast' # qlast =>
            UNCHANGED <<hec, pipe, errch, body, worker, requests, posted, caller>>]_vars
    /\ [][Usable => hec'.src = hec.src]_vars

C20_Witness ==
    /\ qlast.op = "SourceIP" /\ qlast.ip = hec.src /\ hec.src \in LocalAddrs
    /\ RequestFailed /\ closeRets # <<>>

C20_WitnessStreaming ==
    /\ qlast.op = "Sync" /\ worker.pc = "doing" /\ caller.pc = "wData"

C20_WitnessBeforeWrite ==
    /\ qlast.op = "WaitForHot" /\ wlog = <<>> /\ requests = 0 /\ caller.pc = "idle"

(* A wtr.Write is in progress with bytes nobody has read yet. *)
Blocked == caller.pc \in {"wData", "wLast"} /\ pipe.res = "pending"

(* C21: the stream is an unbuffered handoff: a Write does not return        *)
(* success before the request has consumed all of its bytes, no data of a   *)
(* completed Write is ever pending unread, and a Write blocks while nobody  *)
(* reads and the stream is open.                                            *)
C21_UnbufferedHandoff ==
    /\ [](pipe.res = "ok" => pipe.buf = <<>>)
    /\ [](pipe.buf # <<>> => (Blocked \/ pipe.res = "closed"))
    /\ [](Blocked => (~DoneClosed(pipe)
                        /\ ~ENABLED WriteReturns /\ ~ENABLED sendRawNewline))
    /\ []((Blocked /\ worker.pc \in {"none", "start"}) => ~ENABLED TransportRead)
    /\ [][(Len(wlog') > Len(wlog) /\ wlog'[Len(wlog')].err = Nil
              /\ ~wlog'[Len(wlog')].ent.isNil)
            => (pipe.res = "ok" /\ pipe.buf = <<>> /\ requests > 0)]_vars

C21_Witness ==
    /\ \E i \in DOMAIN wlog : wlog[i].err = Nil /\ ~wlog[i].ent.isNil
    /\ Blocked /\ Len(pipe.buf) > 0 /\ body # <<>>

C21_WitnessNoReader ==
    Blocked /\ worker.pc = "start" /\ requests = 0

(* A Write or WriteBatch has been called and has not returned. *)
InWrite == caller.pc \in {"entry", "wData", "wLast"}

(* C22: once the worker has terminated, on whatever exit path, a Write that *)
(* is blocked or issued afterwards returns, with or without error.          *)
C22_WriteReturnsAfterWorkerExit ==
    (worker.pc = "done" /\ InWrite) ~> ~InWrite

(* A Close called after a Close has returned is waiting on errch. *)
SecondCloseWaiting == closeRets # <<>> /\ caller.pc = "closeRecv"

(* C23: a second Close, called after a first Close has returned, never      *)
(* blocks: it finds errch closed and returns no error, whatever the first   *)
(* Close returned.                                                          *)
C23_SecondCloseNeverBlocks ==
    /\ SecondCloseWaiting => (errch.closed /\ CanRecv(errch))
    /\ \A i \in DOMAIN closeRets : i > 1 => closeRets[i] = Nil

(* C23 as amended: a second Close never blocks for good and returns no      *)
(* error: it returns nil as soon as the worker has closed errch, which the  *)
(* worker does after its post; until then the second Close waits.           *)
C23_SecondCloseReturnsNil ==
    /\ [](\A i \in DOMAIN closeRets : i > 1 => closeRets[i] = Nil)
    /\ []((SecondCloseWaiting /\ errch.closed) => ENABLED CloseReturns)
    /\ []((SecondCloseWaiting /\ ~errch.closed) =>
             (errch.buf = <<>> /\ worker.pc \in {"deferBody", "deferCh"}))
    /\ (SecondCloseWaiting ~> (Len(closeRets) > 1 /\ caller.pc # "closeRecv"))

C23_Witness ==
    /\ Len(closeRets) = 2 /\ closeRets[1] # Nil /\ closeRets[2] = Nil

C23_WitnessSuccess ==
    /\ Len(closeRets) = 2 /\ closeRets[1] = Nil /\ closeRets[2] = Nil

C23_WitnessWaiting ==
    SecondCloseWaiting /\ ~CanRecv(errch)

(* C24: the worker never blocks when posting its outcome: errch has one     *)
(* slot and gets at most one value, so the post completes and the worker    *)
(* terminates once its request has completed or failed, whether or not the  *)
(* caller calls Close.                                                      *)
C24_WorkerNeverBlocksOnPost ==
    /\ [](worker.pc \in {"start", "doing", "gotresp"} =>
             (errch.buf = <<>> /\ ~errch.closed /\ posted = <<>> /\ CanSend(errch)))
    /\ []((Alive /\ worker.pc = "start") => ENABLED NewRequestFails)
    /\ []((Alive /\ worker.pc = "doing") => ENABLED DoFails)
    /\ []((Alive /\ worker.pc = "gotresp") => ENABLED PostOutcome)
    /\ [](worker.pc \in {"deferBody", "deferCh", "done"} => Len(posted) = 1)
    /\ ((worker.pc \in {"gotresp", "deferBody", "deferCh"}) ~> (worker.pc = "done"))

C24_Witness ==
    /\ worker.pc = "done" /\ errch.closed /\ errch.buf = posted /\ Len(posted) = 1
    /\ closeRets = <<>> /\ caller.pc = "idle" /\ pipe.werr = Nil /\ nops = MaxOps

C24_WitnessLateClose ==
    /\ worker.pc = "done" /\ closeRets # <<>> /\ closeRets[1] = posted[1]

====
